---- MODULE Spec2Model ----
(***************************************************************************)
(* Model of texture-blend-webgl.js: a WebGL page that loads two textures,  *)
(* waits for both in a requestAnimationFrame polling loop, draws a scene   *)
(* of opaque and translucent objects, and lets mouse drags rotate it.      *)
(*                                                                         *)
(* JavaScript runs every callback to completion on one thread, so the      *)
(* startup script and every callback (image onload, animation frame,       *)
(* mouse event dispatch) is one atomic action.  Init is the state the      *)
(* startup script leaves behind; it has three exits (no GL context,        *)
(* shader failure, normal completion).                                     *)
(***************************************************************************)
EXTENDS Integers, Sequences, FiniteSets

\* ---------------------------------------------------------------- bounds
\* Pointer coordinates delivered by mouse events are drawn from 0..MaxCoord.
MaxCoord == 1
\* Rotation angles are kept within -MaxRot..MaxRot (a drag that would leave
\* the range is not explored).
MaxRot == 1
\* At most MaxListeners rotateScene listeners are ever bound to mousemove.
MaxListeners == 2
\* SpecScene draws the length of objectsToDraw from 0..MaxObjects.
MaxObjects == 4
\* SpecMatrix draws the box edges given to getOrthoMatrix and the axis
\* components given to getRotationMatrix from -MaxExtent..MaxExtent.
MaxExtent == 1

Coords == 0 .. MaxCoord
Rotations == (0 - MaxRot) .. MaxRot

\* ------------------------------------------------------------- constants
Textures == {"gold", "water"}

\* Number of textures drawWhenReady waits for (readyTexture === 2).
RequiredTextures == 2

\* gl.TEXTURE0 / gl.TEXTURE1 as unit numbers.
TextureUnit(texture) == IF texture = "gold" THEN 0 ELSE 1

\* The two objects the startup script builds (gold mesh, water mesh).
SceneObjects == <<"goldMesh", "waterMesh">>

\* Lists of n objects, for the renderer taken on its own.
ObjectList(n) == [i \in 1 .. n |-> IF i = 1 THEN "goldMesh" ELSE "waterMesh"]

NoContext == [present |-> FALSE]

VARIABLES
    gl,               \* state of the WebGL context, or NoContext
    abort,            \* the abort flag set by the shader error callbacks
    imageState,       \* per image: "none" (never created), "loading", "loaded"
    readyTexture,     \* number of texture load handlers that have run
    objectsToDraw,    \* the list of scene objects
    rotationAroundX,
    rotationAroundY,
    xDragStart,
    yDragStart,
    xRotationStart,
    yRotationStart,
    mouseHandlers,    \* mousedown/mouseup handlers are bound to the canvas
    moveListeners,    \* number of rotateScene listeners bound to mousemove
    rafQueue,         \* number of pending drawWhenReady callbacks
    \* ---- observation of the run (history, not program state)
    startupInput,     \* what startup met: context found, shader outcome
    lastOp,           \* the callback the last step ran, with its event position
    frames,           \* number of drawScene executions in the last step
    lastFrame,        \* GL calls of the most recent drawScene execution
    everDrawn,        \* drawScene has been executed at least once
    schedulerDraws,   \* drawScene executions made by drawWhenReady
    pointerDown,      \* the last button event delivered was a pointer-down
    anchor,           \* event position and rotation seen at that pointer-down
    calc              \* a matrix function call taken on its own: input, result

pageVars == <<gl, abort, imageState, readyTexture, objectsToDraw,
              rotationAroundX, rotationAroundY, xDragStart, yDragStart,
              xRotationStart, yRotationStart, mouseHandlers, moveListeners,
              rafQueue, startupInput, lastOp, frames, lastFrame, everDrawn,
              schedulerDraws, pointerDown, anchor>>

vars == <<pageVars, calc>>

\* A variable declared with "let v;" holds undefined until assigned: the
\* empty sequence stands for undefined and <<n>> for the number n.
Undefined == <<>>
Number(n) == <<n>>
ValueOf(v) == v[1]

NoAnchor == [px |-> Undefined, py |-> Undefined,
             bx |-> Undefined, by |-> Undefined]

\* What a step ran: a callback without an event position, or a pointer event.
Callback(name) == [name |-> name, x |-> Undefined, y |-> Undefined]
PointerEvent(name, clientX, clientY) ==
    [name |-> name, x |-> Number(clientX), y |-> Number(clientY)]

\* ------------------------------------------------------------- GL state
\* The context right after getGL and the three "settings that will not
\* change": depth test on, everything else at its WebGL default.
ContextAfterSetup ==
    [present |-> TRUE,
     depthTest |-> TRUE,
     blend |-> FALSE,
     blendFunc |-> <<"ONE", "ZERO">>,
     program |-> "none",
     alpha |-> "0.0",
     sampler |-> 0,
     shininess |-> 0,
     modelViewMatrix |-> "unset",
     xRotationMatrix |-> "unset",
     yRotationMatrix |-> "unset",
     projectionMatrix |-> "unset",
     activeTexture |-> 0,
     boundTexture |-> [u \in {0, 1} |-> "none"]]

\* Mutant: gl.blendFunc is never called.
ContextWithoutBlendFunc ==
    [ContextAfterSetup EXCEPT
        !.program = "shaderProgram",
        !.projectionMatrix = "ortho",
        !.sampler = 0]

\* The context when the startup script has run to its end: program in use,
\* projection uploaded, sampler 0, blend function (SRC_ALPHA, ONE).
ContextAfterStartup ==
    [ContextAfterSetup EXCEPT
        !.program = "shaderProgram",
        !.projectionMatrix = "ortho",
        !.sampler = 0,
        !.blendFunc = <<"SRC_ALPHA", "ONE">>]

\* Mutant: the handler binds on whichever unit is active.
LoadHandlerNoActivate(g, texture) ==
    [g EXCEPT !.boundTexture = [g.boundTexture EXCEPT ![g.activeTexture] = texture]]

\* The onload handler built by loadHandlerFor(texture, image, textureId).
LoadHandler(g, texture) ==
    [g EXCEPT
        !.activeTexture = TextureUnit(texture),
        !.boundTexture = [g.boundTexture EXCEPT ![TextureUnit(texture)] = texture]]

\* Mutant: the handler assigns 1 instead of incrementing.
ReadyAssignedOne(ready) == 1

\* readyTexture += 1
ReadyAfterLoad(ready) == ready + 1

\* ------------------------------------------------------------- renderer
\* Mutant: the split test is <= instead of <.
OpaqueInclusive(index, length) == 2 * index <= length

\* let opaque = index < objectsToDraw.length / 2   (index is 0-based)
Opaque(index, length) == 2 * index < length

\* Mutant: the opaque branch does not restore depth test and blending.
SetGroupStateNoRestore(g, opaque) ==
    IF opaque
    THEN [g EXCEPT !.sampler = 0, !.alpha = "1.0"]
    ELSE [g EXCEPT !.sampler = 1, !.depthTest = FALSE, !.blend = TRUE,
                   !.alpha = "0.5"]

\* The per-object GL setup in drawScene's forEach body.
SetGroupState(g, opaque) ==
    IF opaque
    THEN [g EXCEPT !.sampler = 0, !.depthTest = TRUE, !.blend = FALSE,
                   !.alpha = "1.0"]
    ELSE [g EXCEPT !.sampler = 1, !.depthTest = FALSE, !.blend = TRUE,
                   !.alpha = "0.5"]

\* Scene objects carry no rotation field, so drawObject uploads the identity.
DrawObject(g, object) ==
    [g EXCEPT !.shininess = 16, !.modelViewMatrix = "identity"]

GLCall(name, arg, g) ==
    [call |-> name, arg |-> arg, depthTest |-> g.depthTest, blend |-> g.blend,
     alpha |-> g.alpha, sampler |-> g.sampler]

RECURSIVE DrawObjects(_, _, _, _)
DrawObjects(g, objects, index, log) ==
    IF index >= Len(objects)
    THEN [gl |-> g, log |-> log]
    ELSE LET g1 == SetGroupState(g, Opaque(index, Len(objects)))
             g2 == DrawObject(g1, objects[index + 1])
         IN  DrawObjects(g2, objects, index + 1,
                         Append(log, GLCall("drawArrays", index, g2)))

\* Mutant: the two rotation angles are exchanged.
DrawSceneAnglesSwapped(g, objects, rotX, rotY) ==
    LET g1 == [g EXCEPT !.xRotationMatrix = <<rotY, "X">>,
                        !.yRotationMatrix = <<rotX, "Y">>]
        head == <<GLCall("clear", 0, g),
                  GLCall("xRotationMatrix", rotY, g1),
                  GLCall("yRotationMatrix", rotX, g1)>>
        drawn == DrawObjects(g1, objects, 0, head)
    IN  [gl |-> drawn.gl, log |-> Append(drawn.log, GLCall("flush", 0, drawn.gl))]

\* drawScene: clear, upload both rotation matrices, draw every object, flush.
\* Yields the context afterwards and the GL calls made.
DrawScene(g, objects, rotX, rotY) ==
    LET g1 == [g EXCEPT !.xRotationMatrix = <<rotX, "X">>,
                        !.yRotationMatrix = <<rotY, "Y">>]
        head == <<GLCall("clear", 0, g),
                  GLCall("xRotationMatrix", rotX, g1),
                  GLCall("yRotationMatrix", rotY, g1)>>
        drawn == DrawObjects(g1, objects, 0, head)
    IN  [gl |-> drawn.gl, log |-> Append(drawn.log, GLCall("flush", 0, drawn.gl))]

\* ------------------------------------------------------------- startup
\* How initSimpleShaderProgram went; "notRun" when startup returned before it.
ShaderOutcomes == {"ok", "compileError", "linkError"}
ShaderOutcomesFor(context) == IF context THEN ShaderOutcomes ELSE {"notRun"}

\* Mutant: the compile-error callback does not set abort.
AbortOnLinkErrorOnly(shaders) == shaders = "linkError"

\* The two error callbacks passed to initSimpleShaderProgram set abort.
AbortAfterShaders(shaders) == shaders \in {"compileError", "linkError"}

\* if (!gl) return;
ContextMissing(context) == ~context

\* The state the startup script leaves behind, given whether getGL found a
\* context, how shader initialisation went and the scene list.
Startup(context, shaders, objects) ==
    LET noGL == ContextMissing(context)
        aborted == ~noGL /\ AbortAfterShaders(shaders)
        completed == ~noGL /\ ~aborted
    IN  /\ gl = IF noGL THEN NoContext
                ELSE IF aborted THEN ContextAfterSetup
                ELSE ContextAfterStartup
        /\ abort = aborted
        /\ imageState = [t \in Textures |-> IF noGL THEN "none" ELSE "loading"]
        /\ readyTexture = 0
        /\ objectsToDraw = objects
        /\ rotationAroundX = 0
        /\ rotationAroundY = 0
        /\ xDragStart = Undefined
        /\ yDragStart = Undefined
        /\ xRotationStart = Undefined
        /\ yRotationStart = Undefined
        /\ mouseHandlers = completed
        /\ moveListeners = 0
        /\ rafQueue = IF completed THEN 1 ELSE 0
        /\ startupInput = [context |-> context, shaders |-> shaders]
        /\ lastOp = Callback("startup")
        /\ frames = 0
        /\ lastFrame = <<>>
        /\ everDrawn = FALSE
        /\ schedulerDraws = 0
        /\ pointerDown = FALSE
        /\ anchor = NoAnchor

\* No matrix function call is being looked at.
NoCall == [op |-> "none"]

Init ==
    /\ calc = NoCall
    /\ \E context \in BOOLEAN :
           \E shaders \in ShaderOutcomesFor(context) :
               Startup(context, shaders, SceneObjects)

InitScene ==
    /\ calc = NoCall
    /\ \E n \in 0 .. MaxObjects : Startup(TRUE, "ok", ObjectList(n))

\* ------------------------------------------------------------- callbacks
\* An image finishes loading: its onload handler runs (once per image).  An
\* image that fails or stalls simply stays "loading": no step is taken.
TextureLoaded(t) ==
    /\ imageState[t] = "loading"
    /\ imageState' = [imageState EXCEPT ![t] = "loaded"]
    /\ gl' = LoadHandler(gl, t)
    /\ readyTexture' = ReadyAfterLoad(readyTexture)
    /\ lastOp' = Callback("load")
    /\ frames' = 0
    /\ UNCHANGED <<abort, calc, startupInput, objectsToDraw, rotationAroundX, rotationAroundY,
                   xDragStart, yDragStart, xRotationStart, yRotationStart,
                   mouseHandlers, moveListeners, rafQueue, lastFrame,
                   everDrawn, schedulerDraws, pointerDown, anchor>>

\* if (readyTexture === 2)
GateSatisfied(ready) == ready = RequiredTextures

\* Mutant: drawWhenReady requests another callback on both branches.
RafAlwaysRearms(queue, satisfied) == (queue - 1) + 1

\* Mutant: drawWhenReady never requests another callback.
RafNeverRearms(queue, satisfied) == queue - 1

\* The callback queue after one drawWhenReady callback has run: the callback
\* itself is consumed, and the else branch requests one more.
RafAfterCallback(queue, satisfied) ==
    IF satisfied THEN queue - 1 ELSE (queue - 1) + 1

\* A pending animation-frame callback runs drawWhenReady.
DrawWhenReady ==
    /\ rafQueue > 0
    /\ lastOp' = Callback("raf")
    /\ rafQueue' = RafAfterCallback(rafQueue, GateSatisfied(readyTexture))
    /\ IF GateSatisfied(readyTexture)
       THEN LET drawn == DrawScene(gl, objectsToDraw, rotationAroundX,
                                   rotationAroundY)
            IN  /\ gl' = drawn.gl
                /\ lastFrame' = drawn.log
                /\ frames' = 1
                /\ everDrawn' = TRUE
                /\ schedulerDraws' = schedulerDraws + 1
       ELSE /\ frames' = 0
            /\ UNCHANGED <<gl, lastFrame, everDrawn, schedulerDraws>>
    /\ UNCHANGED <<abort, calc, startupInput, imageState, readyTexture, objectsToDraw,
                   rotationAroundX, rotationAroundY, xDragStart, yDragStart,
                   xRotationStart, yRotationStart, mouseHandlers,
                   moveListeners, pointerDown, anchor>>

\* ------------------------------------------------------------- pointer
\* The four assignments of the mousedown handler.
CaptureAnchor(clientX, clientY, rotX, rotY) ==
    [xDragStart |-> Number(clientX),
     yDragStart |-> Number(clientY),
     xRotationStart |-> Number(rotX),
     yRotationStart |-> Number(rotY)]

\* $(canvas).mousemove(rotateScene) adds one more listener.
ListenersAfterDown(listeners) == listeners + 1

\* Mutant: the mouseup handler leaves the listeners bound.
ListenersKept(listeners) == listeners

\* $(canvas).unbind("mousemove") removes every mousemove listener.
ListenersAfterUp(listeners) == 0

\* Mutant: the pointer-down position is not subtracted.
RotatedXNoAnchor(rotationStart, dragStart, clientY) ==
    ValueOf(rotationStart) + clientY

\* rotationAroundX = xRotationStart - yDragStart + event.clientY
RotatedX(rotationStart, dragStart, clientY) ==
    ValueOf(rotationStart) - ValueOf(dragStart) + clientY

\* rotationAroundY = yRotationStart - xDragStart + event.clientX
RotatedY(rotationStart, dragStart, clientX) ==
    ValueOf(rotationStart) - ValueOf(dragStart) + clientX

\* One execution of rotateScene on the running state s for event (x, y).
RotateScene(s, clientX, clientY) ==
    LET rotX == RotatedX(xRotationStart, yDragStart, clientY)
        rotY == RotatedY(yRotationStart, xDragStart, clientX)
        drawn == DrawScene(s.gl, objectsToDraw, rotX, rotY)
    IN  [rotX |-> rotX, rotY |-> rotY, gl |-> drawn.gl, log |-> drawn.log,
         frames |-> s.frames + 1]

\* Dispatch of one mousemove event: every bound listener runs in turn.
RECURSIVE DispatchMove(_, _, _, _)
DispatchMove(listeners, s, clientX, clientY) ==
    IF listeners = 0
    THEN s
    ELSE DispatchMove(listeners - 1, RotateScene(s, clientX, clientY),
                      clientX, clientY)

\* A pointer-down event reaches the canvas.
MouseDown(clientX, clientY) ==
    /\ mouseHandlers => moveListeners < MaxListeners
    /\ IF mouseHandlers
       THEN LET a == CaptureAnchor(clientX, clientY, rotationAroundX,
                                   rotationAroundY)
            IN  /\ xDragStart' = a.xDragStart
                /\ yDragStart' = a.yDragStart
                /\ xRotationStart' = a.xRotationStart
                /\ yRotationStart' = a.yRotationStart
                /\ moveListeners' = ListenersAfterDown(moveListeners)
       ELSE UNCHANGED <<xDragStart, yDragStart, xRotationStart,
                        yRotationStart, moveListeners>>
    /\ lastOp' = PointerEvent("mousedown", clientX, clientY)
    /\ frames' = 0
    /\ pointerDown' = TRUE
    /\ anchor' = [px |-> Number(clientX), py |-> Number(clientY),
                  bx |-> Number(rotationAroundX),
                  by |-> Number(rotationAroundY)]
    /\ UNCHANGED <<gl, abort, calc, startupInput, imageState, readyTexture, objectsToDraw,
                   rotationAroundX, rotationAroundY, mouseHandlers, rafQueue,
                   lastFrame, everDrawn, schedulerDraws>>

\* A pointer-move event reaches the canvas.
MouseMove(clientX, clientY) ==
    LET s0 == [rotX |-> rotationAroundX, rotY |-> rotationAroundY, gl |-> gl,
               log |-> lastFrame, frames |-> 0]
        s1 == DispatchMove(moveListeners, s0, clientX, clientY)
    IN  /\ moveListeners > 0 =>
               /\ RotatedX(xRotationStart, yDragStart, clientY) \in Rotations
               /\ RotatedY(yRotationStart, xDragStart, clientX) \in Rotations
        /\ rotationAroundX' = s1.rotX
        /\ rotationAroundY' = s1.rotY
        /\ gl' = s1.gl
        /\ lastFrame' = s1.log
        /\ frames' = s1.frames
        /\ everDrawn' = (everDrawn \/ s1.frames > 0)
        /\ lastOp' = PointerEvent("mousemove", clientX, clientY)
        /\ UNCHANGED <<abort, calc, startupInput, imageState, readyTexture, objectsToDraw,
                       xDragStart, yDragStart, xRotationStart, yRotationStart,
                       mouseHandlers, moveListeners, rafQueue, schedulerDraws,
                       pointerDown, anchor>>

\* A pointer-up event reaches the canvas.
MouseUp ==
    /\ moveListeners' = IF mouseHandlers THEN ListenersAfterUp(moveListeners)
                        ELSE moveListeners
    /\ lastOp' = Callback("mouseup")
    /\ frames' = 0
    /\ pointerDown' = FALSE
    /\ UNCHANGED <<gl, abort, calc, startupInput, imageState, readyTexture, objectsToDraw,
                   rotationAroundX, rotationAroundY, xDragStart, yDragStart,
                   xRotationStart, yRotationStart, mouseHandlers, rafQueue,
                   lastFrame, everDrawn, schedulerDraws, anchor>>

\* --------------------------------------------------- matrix functions
\* JavaScript numbers are taken as exact rationals <<numerator, denominator>>
\* (rounding of the floating-point operations is left out).
Frac(n, d) == <<n, d>>
FAdd(a, b) == <<a[1] * b[2] + b[1] * a[2], a[2] * b[2]>>
FNeg(a) == <<0 - a[1], a[2]>>
FSub(a, b) == FAdd(a, FNeg(b))
FMul(a, b) == <<a[1] * b[1], a[2] * b[2]>>
FDiv(a, b) == <<a[1] * b[2], a[2] * b[1]>>
FEq(a, b) == a[1] * b[2] = b[1] * a[2]
Zero == Frac(0, 1)
One == Frac(1, 1)
Two == Frac(2, 1)

\* Mutant: the translation column is left at zero.
GetOrthoMatrixNoTranslation(left, right, bottom, top, zNear, zFar) ==
    LET width == Frac(right - left, 1)
        height == Frac(top - bottom, 1)
        depth == Frac(zFar - zNear, 1)
    IN  << FDiv(Two, width), Zero, Zero, Zero,
           Zero, FDiv(Two, height), Zero, Zero,
           Zero, Zero, FDiv(FNeg(Two), depth), Zero,
           Zero, Zero, Zero, One >>

\* getOrthoMatrix: the 16 entries in the order the array literal lists them.
GetOrthoMatrix(left, right, bottom, top, zNear, zFar) ==
    LET width == Frac(right - left, 1)
        height == Frac(top - bottom, 1)
        depth == Frac(zFar - zNear, 1)
    IN  << FDiv(Two, width), Zero, Zero, Zero,
           Zero, FDiv(Two, height), Zero, Zero,
           Zero, Zero, FDiv(FNeg(Two), depth), Zero,
           FDiv(FNeg(Frac(right + left, 1)), width),
           FDiv(FNeg(Frac(top + bottom, 1)), height),
           FDiv(FNeg(Frac(zFar + zNear, 1)), depth),
           One >>

\* An angle is given by its sine and cosine; Angles holds the angles whose
\* sine and cosine are multiples of 1/5 (the quadrant angles and the angles
\* of the 3-4-5 triangle in every quadrant).
Angles ==
    {[sin |-> Frac(a, 5), cos |-> Frac(b, 5)] :
        <<a, b>> \in {p \in (-5 .. 5) \X (-5 .. 5) :
                         p[1] * p[1] + p[2] * p[2] = 25}}

\* Math.sin(angle * Math.PI / 180.0), Math.cos(angle * Math.PI / 180.0)
Sin(angle) == angle.sin
Cos(angle) == angle.cos

\* Math.sqrt, on the perfect squares.
Sqrt(n) == CHOOSE r \in 0 .. n : r * r = n
IsSquare(n) == \E r \in 0 .. n : r * r = n

\* The array literal of getRotationMatrix for a normalized axis (x, y, z).
RotationEntries(x, y, z, s, c) ==
    LET oneMinusC == FSub(One, c)
        x2 == FMul(x, x)
        y2 == FMul(y, y)
        z2 == FMul(z, z)
        xy == FMul(x, y)
        yz == FMul(y, z)
        xz == FMul(x, z)
        xs == FMul(x, s)
        ys == FMul(y, s)
        zs == FMul(z, s)
    IN  << FAdd(FMul(x2, oneMinusC), c),
           FAdd(FMul(xy, oneMinusC), zs),
           FSub(FMul(xz, oneMinusC), ys),
           Zero,
           FSub(FMul(xy, oneMinusC), zs),
           FAdd(FMul(y2, oneMinusC), c),
           FAdd(FMul(yz, oneMinusC), xs),
           Zero,
           FAdd(FMul(xz, oneMinusC), ys),
           FSub(FMul(yz, oneMinusC), xs),
           FAdd(FMul(z2, oneMinusC), c),
           Zero,
           Zero, Zero, Zero, One >>

\* Mutant: the rotation turns the other way (sine negated).
GetRotationMatrixReversed(angle, x, y, z) ==
    LET axisLength == Frac(Sqrt((x * x) + (y * y) + (z * z)), 1)
    IN  RotationEntries(FDiv(Frac(x, 1), axisLength),
                        FDiv(Frac(y, 1), axisLength),
                        FDiv(Frac(z, 1), axisLength),
                        FNeg(Sin(angle)), Cos(angle))

\* getRotationMatrix: normalize the axis, then fill the array literal.
GetRotationMatrix(angle, x, y, z) ==
    LET axisLength == Frac(Sqrt((x * x) + (y * y) + (z * z)), 1)
    IN  RotationEntries(FDiv(Frac(x, 1), axisLength),
                        FDiv(Frac(y, 1), axisLength),
                        FDiv(Frac(z, 1), axisLength),
                        Sin(angle), Cos(angle))

\* A column-major 4x4 matrix applied to the point (p[1], p[2], p[3], 1):
\* row i of the result (i = 1, 2, 3).
TransformRow(m, p, i) ==
    FAdd(FAdd(FMul(m[i], Frac(p[1], 1)), FMul(m[4 + i], Frac(p[2], 1))),
         FAdd(FMul(m[8 + i], Frac(p[3], 1)), m[12 + i]))

Extents == (0 - MaxExtent) .. MaxExtent

\* Boxes with non-zero spans.
Boxes ==
    {b \in Extents \X Extents \X Extents \X Extents \X Extents \X Extents :
        b[1] # b[2] /\ b[3] # b[4] /\ b[5] # b[6]}

\* Non-zero axes whose length is a whole number.
Axes ==
    {a \in Extents \X Extents \X Extents :
        /\ a # <<0, 0, 0>>
        /\ IsSquare(a[1] * a[1] + a[2] * a[2] + a[3] * a[3])}

\* The page as it is when no context was found: nothing runs in it while a
\* matrix function is looked at on its own.
InitMatrix ==
    /\ Startup(FALSE, "notRun", SceneObjects)
    /\ \/ \E b \in Boxes : calc = [op |-> "orthoInput", in |-> b]
       \/ \E angle \in Angles, a \in Axes :
              calc = [op |-> "rotationInput", angle |-> angle, in |-> a]

CallOrtho ==
    /\ calc.op = "orthoInput"
    /\ calc' = [op |-> "ortho", in |-> calc.in,
                result |-> GetOrthoMatrix(calc.in[1], calc.in[2], calc.in[3],
                                          calc.in[4], calc.in[5], calc.in[6])]
    /\ UNCHANGED pageVars

CallRotation ==
    /\ calc.op = "rotationInput"
    /\ calc' = [op |-> "rotation", angle |-> calc.angle, in |-> calc.in,
                result |-> GetRotationMatrix(calc.angle, calc.in[1],
                                             calc.in[2], calc.in[3])]
    /\ UNCHANGED pageVars

NextMatrix ==
    \/ CallOrtho
    \/ CallRotation

\* getOrthoMatrix and getRotationMatrix applied to inputs of InitMatrix.
SpecMatrix == InitMatrix /\ [][NextMatrix]_vars

\* ------------------------------------------------------- specifications
Next ==
    \/ \E t \in Textures : TextureLoaded(t)
    \/ DrawWhenReady
    \/ \E x \in Coords, y \in Coords : MouseDown(x, y)
    \/ \E x \in Coords, y \in Coords : MouseMove(x, y)
    \/ MouseUp

\* The same callbacks with every pointer event at position (0, 0): neither
\* the renderer nor the scheduler branches on the pointer position.
NextAtOrigin ==
    \/ \E t \in Textures : TextureLoaded(t)
    \/ DrawWhenReady
    \/ MouseDown(0, 0)
    \/ MouseMove(0, 0)
    \/ MouseUp

\* The program as written: the scene list holds the two meshes.
Spec == Init /\ [][Next]_vars

\* The renderer over scene lists of every length up to MaxObjects.
SpecScene == InitScene /\ [][NextAtOrigin]_vars

\* The browser eventually runs a requested animation-frame callback.  Image
\* loads and pointer events are not forced to happen.
SpecFair == Init /\ [][NextAtOrigin]_vars /\ WF_vars(DrawWhenReady)

\* --------------------------------------------------------------- states
\* Startup returned early: no context, or a shader error callback fired.
StartupAborted ==
    \/ ~startupInput.context
    \/ startupInput.shaders # "ok"

AllLoaded == \A t \in Textures : imageState[t] = "loaded"

LoadsCompleted == Cardinality({t \in Textures : imageState[t] = "loaded"})

\* The Interaction Controller is Dragging: it exists and the last button
\* event it received was a pointer-down.
Dragging == mouseHandlers /\ pointerDown

\* The drawArrays calls of the most recent frame, in the order made.
IsDraw(c) == c.call = "drawArrays"
Draws == SelectSeq(lastFrame, IsDraw)

TypeOK ==
    /\ readyTexture \in 0 .. 2
    /\ moveListeners \in 0 .. MaxListeners
    /\ rotationAroundX \in Rotations
    /\ rotationAroundY \in Rotations

\* =============================================================== claims

\* C1 (as claimed): drawScene is never executed while readyTexture < 2; a
\* step that executed drawScene (frames > 0) left readyTexture untouched, so
\* the count seen after the step is the count drawScene ran under.
C1_NoFrameBeforeBothTextures ==
    frames > 0 => readyTexture >= RequiredTextures

\* C2: a drawWhenReady callback run with both textures ready executes
\* drawScene exactly once and leaves one callback fewer pending; run with
\* fewer than two ready it executes drawScene zero times and leaves as many
\* pending as before (itself consumed, one requested).  At most one callback
\* is ever pending and the scheduler executes drawScene at most once.
C2_SchedulerStep ==
    lastOp'.name = "raf" =>
        IF readyTexture = RequiredTextures
        THEN /\ frames' = 1
             /\ schedulerDraws' = schedulerDraws + 1
             /\ rafQueue' = rafQueue - 1
        ELSE /\ frames' = 0
             /\ schedulerDraws' = schedulerDraws
             /\ rafQueue' = rafQueue
C2_SchedulerDrawsOnce ==
    /\ [][C2_SchedulerStep]_vars
    /\ [](rafQueue <= 1 /\ schedulerDraws <= 1)

\* C2 witness: the scheduler has just drawn its frame and nothing is pending.
C2_Witness ==
    /\ lastOp.name = "raf"
    /\ frames = 1
    /\ schedulerDraws = 1
    /\ rafQueue = 0

\* C3: readyTexture equals the number of image loads that have completed,
\* stays within 0..2, never decreases, and the gate test holds exactly when
\* two loads have completed.
C3_CountsCompletions ==
    /\ readyTexture = LoadsCompleted
    /\ readyTexture \in 0 .. RequiredTextures
    /\ GateSatisfied(readyTexture) <=> (LoadsCompleted = 2)
C3_ReadyTextureCounts ==
    /\ []C3_CountsCompletions
    /\ [][readyTexture' >= readyTexture]_vars

\* C3 witness: both loads have completed and the gate test is true.
C3_Witness ==
    /\ AllLoaded
    /\ readyTexture = 2
    /\ GateSatisfied(readyTexture)

\* C4: in every frame the objects are drawn in list order, one draw call
\* each; object i is drawn as opaque (without blending) iff i < n/2; so no
\* translucent draw precedes an opaque one.  For 4 objects, draws 0 and 1
\* are opaque and draws 2 and 3 translucent.
C4_OpaqueFirstInListOrder ==
    lastFrame # <<>> =>
        LET n == Len(objectsToDraw)
        IN  /\ Len(Draws) = n
            /\ \A k \in 1 .. n : Draws[k].arg = k - 1
            /\ \A k \in 1 .. n : (~Draws[k].blend) <=> (2 * (k - 1) < n)
            /\ \A j \in 1 .. n : \A k \in 1 .. n :
                   (~Draws[j].blend /\ Draws[k].blend) => j < k
            /\ n = 4 => /\ ~Draws[1].blend /\ ~Draws[2].blend
                        /\ Draws[3].blend /\ Draws[4].blend

\* C4 witness: a frame of four objects has been drawn.
C4_Witness ==
    /\ Len(objectsToDraw) = 4
    /\ Len(Draws) = 4
    /\ frames > 0

C6_RotationFromAnchor ==
    (Dragging /\ lastOp.name = "mousemove") =>
        /\ rotationAroundX
             = ValueOf(anchor.bx) - ValueOf(anchor.py) + ValueOf(lastOp.y)
        /\ rotationAroundY
             = ValueOf(anchor.by) - ValueOf(anchor.px) + ValueOf(lastOp.x)
        /\ lastOp.x = anchor.px => rotationAroundY = ValueOf(anchor.by)

\* C6 witness: a drag that started from a non-zero rotation, moved in Y only
\* and changed rotationAroundX.
C6_Witness ==
    /\ Dragging
    /\ lastOp.name = "mousemove"
    /\ anchor.bx # Number(0)
    /\ lastOp.y # anchor.py
    /\ lastOp.x = anchor.px
    /\ rotationAroundX # ValueOf(anchor.bx)

\* C7 (as claimed): in Idle no pointer-move listener is registered, a
\* pointer-move neither changes the rotation nor executes drawScene, and
\* the drag anchor is discarded on pointer-up.
C7_IdleStep ==
    /\ ~pointerDown => moveListeners = 0
    /\ (~pointerDown /\ lastOp'.name = "mousemove") =>
           /\ rotationAroundX' = rotationAroundX
           /\ rotationAroundY' = rotationAroundY
           /\ frames' = 0
    /\ lastOp'.name = "mouseup" =>
           /\ xDragStart' = Undefined
           /\ yDragStart' = Undefined
           /\ xRotationStart' = Undefined
           /\ yRotationStart' = Undefined
C7_IdleStepAnchorKept ==
    /\ ~pointerDown => moveListeners = 0
    /\ (~pointerDown /\ lastOp'.name = "mousemove") =>
           /\ rotationAroundX' = rotationAroundX
           /\ rotationAroundY' = rotationAroundY
           /\ frames' = 0
    /\ lastOp'.name = "mouseup" =>
           /\ moveListeners' = 0
           /\ xDragStart' = xDragStart
           /\ yDragStart' = yDragStart
           /\ xRotationStart' = xRotationStart
           /\ yRotationStart' = yRotationStart
C8_AbortedNeverRenders ==
    StartupAborted =>
        /\ rafQueue = 0
        /\ ~mouseHandlers
        /\ moveListeners = 0
        /\ frames = 0
        /\ ~everDrawn
        /\ lastFrame = <<>>

\* C8 witness: a shader error aborted startup, both texture loads completed
\* afterwards and pointer events were delivered.
C8_Witness ==
    /\ startupInput.shaders = "compileError"
    /\ abort
    /\ readyTexture = 2
    /\ pointerDown
    /\ lastOp.name = "mousemove"

\* C9 (as claimed): while the gate has not opened (a load that never
\* completes keeps it so forever) drawWhenReady stays pending and drawScene
\* has not been executed, whatever pointer events occurred.
C9_NoRenderWhileGateClosed ==
    (~StartupAborted /\ readyTexture < RequiredTextures) =>
        /\ rafQueue = 1
        /\ ~everDrawn

\* C10: when startup did not abort and both loads have completed, the
\* scheduler eventually executes drawScene and from then on no callback is
\* pending, given that pending animation-frame callbacks are eventually run.
C10_EventuallyDrawnThenQuiet ==
    (~StartupAborted /\ AllLoaded) ~> [](schedulerDraws = 1 /\ rafQueue = 0)

\* C10 witness: both loads completed, the scheduler drew, nothing is pending.
C10_Witness ==
    /\ ~StartupAborted
    /\ AllLoaded
    /\ schedulerDraws = 1
    /\ everDrawn
    /\ rafQueue = 0

\* C11 (as claimed): getOrthoMatrix maps (left, bottom, near) to
\* (-1, -1, -1) and (right, top, far) to (1, 1, 1).
C11_OrthoMapsBoxCorners ==
    calc.op = "ortho" =>
        LET m == calc.result
            lo == <<calc.in[1], calc.in[3], calc.in[5]>>
            hi == <<calc.in[2], calc.in[4], calc.in[6]>>
        IN  /\ \A i \in 1 .. 3 : FEq(TransformRow(m, lo, i), FNeg(One))
            /\ \A i \in 1 .. 3 : FEq(TransformRow(m, hi, i), One)

\* C11 (amended): getOrthoMatrix maps (left, bottom, -near) to (-1, -1, -1)
\* and (right, top, -far) to (1, 1, 1): near and far are distances along
\* the negative Z axis.
C11_OrthoMapsNegatedDepth ==
    calc.op = "ortho" =>
        LET m == calc.result
            lo == <<calc.in[1], calc.in[3], 0 - calc.in[5]>>
            hi == <<calc.in[2], calc.in[4], 0 - calc.in[6]>>
        IN  /\ \A i \in 1 .. 3 : FEq(TransformRow(m, lo, i), FNeg(One))
            /\ \A i \in 1 .. 3 : FEq(TransformRow(m, hi, i), One)

\* C11 witness: getOrthoMatrix has returned for a box that is not centred
\* on the origin in any direction.
C11_Witness ==
    /\ calc.op = "ortho"
    /\ calc.in[1] + calc.in[2] # 0
    /\ calc.in[3] + calc.in[4] # 0
    /\ calc.in[5] + calc.in[6] # 0

\* C12: for axis (1, 0, 0) and an angle of sine s and cosine c,
\* getRotationMatrix returns [1,0,0,0, 0,c,s,0, 0,-s,c,0, 0,0,0,1].
C12_RotationAboutX ==
    (calc.op = "rotation" /\ calc.in = <<1, 0, 0>>) =>
        LET s == Sin(calc.angle)
            c == Cos(calc.angle)
            expected == << One, Zero, Zero, Zero,
                           Zero, c, s, Zero,
                           Zero, FNeg(s), c, Zero,
                           Zero, Zero, Zero, One >>
        IN  \A i \in 1 .. 16 : FEq(calc.result[i], expected[i])

\* C12 witness: getRotationMatrix has returned for axis (1, 0, 0) and an
\* angle whose sine is 3/5 and cosine 4/5.
C12_Witness ==
    /\ calc.op = "rotation"
    /\ calc.in = <<1, 0, 0>>
    /\ calc.angle = [sin |-> Frac(3, 5), cos |-> Frac(4, 5)]

\* C13 (as claimed): at most one pointer-move listener is registered, and a
\* pointer-move delivered while Dragging executes drawScene exactly once.
C13_SingleMoveListener ==
    /\ moveListeners <= 1
    /\ (Dragging /\ lastOp.name = "mousemove") => frames = 1

\* C14: once both load handlers have run, in either order, unit 0 has the
\* gold texture bound and unit 1 the water texture (both loads being final,
\* the bindings stay so), and a frame drawn then samples gold for the opaque
\* group and water for the translucent group: the texture sampled by a draw
\* is the one bound to the unit its sampler uniform selects.
C14_TextureUnitsBound ==
    AllLoaded =>
        /\ gl.boundTexture[0] = "gold"
        /\ gl.boundTexture[1] = "water"
        /\ frames > 0 =>
               \A k \in 1 .. Len(Draws) :
                   IF 2 * Draws[k].arg < Len(objectsToDraw)
                   THEN /\ Draws[k].sampler = 0
                        /\ gl.boundTexture[Draws[k].sampler] = "gold"
                   ELSE /\ Draws[k].sampler = 1
                        /\ gl.boundTexture[Draws[k].sampler] = "water"

\* C14 witness: the water load ran first and the gold load last, and a frame
\* was drawn after both.
C14_Witness ==
    /\ AllLoaded
    /\ gl.activeTexture = 0
    /\ frames > 0
    /\ Len(Draws) = 2

\* C15: both rotations start at 0, and a step changes either of them only
\* if it is a pointer-move handled while Dragging; steps of pointer-down,
\* pointer-up, texture load and scheduler callback leave both unchanged.
C15_RotationStep ==
    (rotationAroundX' # rotationAroundX \/ rotationAroundY' # rotationAroundY)
        => (lastOp'.name = "mousemove" /\ Dragging)
C15_RotationOnlyByDrag ==
    /\ rotationAroundX = 0
    /\ rotationAroundY = 0
    /\ [][C15_RotationStep]_vars
    /\ [](~everDrawn => (rotationAroundX = 0 /\ rotationAroundY = 0))

\* C15 witness: a drag changed both rotations and they are still in place
\* after the pointer-up and a scheduler callback.
C15_Witness ==
    /\ rotationAroundX # 0
    /\ rotationAroundY # 0
    /\ ~pointerDown
    /\ lastOp.name = "raf"

\* C16: when startup completed, and so whenever a frame has been drawn, the
\* blend function is (SRC_ALPHA, ONE) and the projection matrix uniform is
\* set; this holds in every state, so no operation changes either.
C16_BlendFuncAndProjectionFixed ==
    (~StartupAborted \/ everDrawn) =>
        /\ gl.blendFunc = <<"SRC_ALPHA", "ONE">>
        /\ gl.projectionMatrix = "ortho"

\* C16 witness: frames were drawn by the scheduler and by a drag, after a
\* texture load.
C16_Witness ==
    /\ schedulerDraws = 1
    /\ lastOp.name = "mousemove"
    /\ frames > 0
    /\ AllLoaded

\* C17: every frame is, in this order: one clear, the X rotation upload for
\* the current rotationAroundX, the Y rotation upload for the current
\* rotationAroundY, one drawArrays per object in list order, one flush.
C17_FrameCallOrder ==
    lastFrame # <<>> =>
        LET n == Len(objectsToDraw)
        IN  /\ Len(lastFrame) = n + 4
            /\ lastFrame[1].call = "clear"
            /\ lastFrame[2].call = "xRotationMatrix"
            /\ lastFrame[2].arg = rotationAroundX
            /\ gl.xRotationMatrix = <<rotationAroundX, "X">>
            /\ lastFrame[3].call = "yRotationMatrix"
            /\ lastFrame[3].arg = rotationAroundY
            /\ gl.yRotationMatrix = <<rotationAroundY, "Y">>
            /\ \A k \in 1 .. n : /\ lastFrame[3 + k].call = "drawArrays"
                                 /\ lastFrame[3 + k].arg = k - 1
            /\ lastFrame[n + 4].call = "flush"

\* C17 witness: a frame drawn by a drag with different X and Y rotations.
C17_Witness ==
    /\ frames > 0
    /\ lastOp.name = "mousemove"
    /\ rotationAroundX # rotationAroundY
    /\ Len(lastFrame) = 6

====
